---------------------------- MODULE Spec2Model ----------------------------
(***************************************************************************)
(* Model of backend/server.py: the conversation store (load_conversation,  *)
(* save_conversation), the multi-region inference dispatch (call_bedrock)  *)
(* and the two request handlers (chat, get_conversation).                  *)
(*                                                                         *)
(* A request handler is a process that gives up control only at its I/O    *)
(* calls (storage get/put, the converse call); the statements between two  *)
(* I/O calls form one step.  The handlers share the module-level           *)
(* current_region_index and the storage.                                   *)
(***************************************************************************)
EXTENDS Integers, Sequences, FiniteSets, TLC

(***************************************************************************)
(* Bounds of the model.                                                    *)
(***************************************************************************)
\* handlers that can be in flight at the same time
NumHandlers == 2
\* chat requests accepted in one behaviour
MaxCalls == 2
\* longest configured region list
MaxRegions == 2
\* turns of the log found in storage at start-up (two messages each)
SeedTurns == 10

(***************************************************************************)
(* Program constants.                                                      *)
(***************************************************************************)
\* conversation[-20:]
HistoryLimit == 20

Handlers == 1..NumHandlers

RegionPool == <<"us-west-2", "us-east-1", "us-east-2", "eu-west-1">>

\* the text of the k-th chat request: every request brings a text of its own
UserText(k) == "msg-" \o ToString(k)

\* response["output"]["message"]["content"][0]["text"]: the text a region
\* generates for a message list; the code never looks into it, so it is
\* named after the region and the last user text it answers
ReplyText(region, messages) ==
    "re:" \o messages[Len(messages)].content[1].text \o "@" \o region

\* session ids a client makes up itself; the first has a log in storage at
\* start-up, the second has none and no chat request uses it
SeededId == "s1"
UnknownId == "s2"
ClientIds == {SeededId, UnknownId}

\* values of uuid.uuid4()
UUIDPool == <<"uuid-1", "uuid-2", "uuid-3", "uuid-4", "uuid-5">>
UUIDs == {UUIDPool[i] : i \in 1..(MaxCalls + 1)}

\* every session id that can name a stored log
SessionIds == ClientIds \cup UUIDs

\* Optional[str]: <<>> is None, <<s>> is the string s
None == <<>>
Some(s) == <<s>>

\* prompt() of the context module, with the "System: " prefix of line 128
SystemText == "System: " \o "<persona>"

VARIABLES
    USE_S3,                 \* line 51: storage mode, fixed at start-up
    BEDROCK_REGIONS,        \* line 39: ordered region list, fixed at start-up
    current_region_index,   \* line 48: module-level cursor
    storage,                \* path -> stored document (file or object)
    req,                    \* handler -> its request in progress
    issued,                 \* uuids generated so far
    revealed,               \* uuids a response has carried to a client
    calls                   \* requests accepted so far

vars == <<USE_S3, BEDROCK_REGIONS, current_region_index, storage, req,
          issued, revealed, calls>>

(***************************************************************************)
(* Small helpers.                                                          *)
(***************************************************************************)
Min(a, b) == IF a < b THEN a ELSE b

Max(a, b) == IF a < b THEN b ELSE a

\* Python's seq[i:j] with 0 <= i <= j <= len(seq), as a 1-based sequence
Slice(s, i, j) == SubSeq(s, i + 1, j)

(***************************************************************************)
(* Messages and their JSON form.                                           *)
(***************************************************************************)
\* {"role": ..., "content": ..., "timestamp": ...}
Msg(role, content, timestamp) ==
    [role |-> role, content |-> content, timestamp |-> timestamp]

\* datetime.isoformat() of a clock value
isoformat(t) == "T" \o ToString(t)

\* datetime.now(): the clock ticks once per request accepted, after the seeds
Clock == 2 * SeedTurns + calls

\* get_memory_path: the key or file name of a session
get_memory_path(session_id) == session_id \o ".json"

\* json.dumps of one message dict: the tokens of one JSON object
DumpObject(m) ==
    <<"{", "role", m.role, "content", m.content, "timestamp", m.timestamp, "}">>

RECURSIVE DumpItems(_)
DumpItems(messages) ==
    IF messages = <<>> THEN <<>>
    ELSE DumpObject(Head(messages)) \o DumpItems(Tail(messages))

\* json.dumps(messages, indent=2): the tokens of a JSON array of objects
json_dumps(messages) == <<"[">> \o DumpItems(messages) \o <<"]">>

\* tokens of one dumped object
ObjectLen == Len(DumpObject(Msg("", "", "")))

\* one JSON object at the head of a token sequence
IsObjectAt(toks) ==
    /\ Len(toks) >= ObjectLen
    /\ toks[1] = "{"
    /\ toks[2] = "role"
    /\ toks[4] = "content"
    /\ toks[6] = "timestamp"
    /\ toks[8] = "}"

RECURSIVE ParseItems(_)
\* the objects of an array body up to its closing bracket;
\* ok is FALSE where json raises JSONDecodeError
ParseItems(toks) ==
    IF toks = <<"]">> THEN [ok |-> TRUE, value |-> <<>>]
    ELSE IF ~IsObjectAt(toks) THEN [ok |-> FALSE, value |-> <<>>]
    ELSE LET rest == ParseItems(SubSeq(toks, ObjectLen + 1, Len(toks)))
         IN IF ~rest.ok THEN rest
            ELSE [ok |-> TRUE,
                  value |-> <<Msg(toks[3], toks[5], toks[7])>> \o rest.value]

\* json.loads / json.load: the list of dicts, or a decode error
json_loads(doc) ==
    IF doc = <<>> \/ Head(doc) # "[" THEN [ok |-> FALSE, value |-> <<>>]
    ELSE ParseItems(Tail(doc))

(***************************************************************************)
(* Storage: one document per session under get_memory_path(session_id),    *)
(* a file below MEMORY_DIR or an object of S3_BUCKET.                      *)
(***************************************************************************)
Paths == {get_memory_path(s) : s \in SessionIds}

NoDocument == [exists |-> FALSE, body |-> <<>>]

Document(body) == [exists |-> TRUE, body |-> body]

\* what the storage does to one call: "none" is no fault
LoadFaults == IF USE_S3 THEN {"none", "ClientError", "Exception"}
                        ELSE {"none", "Exception"}

SaveFaults == IF USE_S3 THEN {"none", "Exception"}
                        ELSE {"none", "open", "write"}

\* s3_client.get_object: the body, or the ClientError / other exception raised
s3_get_object(store, key, fault) ==
    IF fault = "ClientError" THEN [raised |-> "ClientError", code |-> "AccessDenied", body |-> <<>>]
    ELSE IF fault = "Exception" THEN [raised |-> "Exception", code |-> "", body |-> <<>>]
    ELSE IF ~store[key].exists THEN [raised |-> "ClientError", code |-> "NoSuchKey", body |-> <<>>]
    ELSE [raised |-> "", code |-> "", body |-> store[key].body]

Returned(value) == [ok |-> TRUE, value |-> value]

Raised == [ok |-> FALSE, value |-> <<>>]

\* load_s3 re-raising every ClientError, NoSuchKey included
load_s3_reraise(store, session_id, fault) ==
    LET response == s3_get_object(store, get_memory_path(session_id), fault)
    IN IF response.raised # "" THEN Raised ELSE json_loads(response.body)

\* load_conversation on the object storage (lines 85-91)
load_s3(store, session_id, fault) ==
    LET response == s3_get_object(store, get_memory_path(session_id), fault)
    IN IF response.raised = "ClientError"
         THEN IF response.code = "NoSuchKey" THEN Returned(<<>>) ELSE Raised
       ELSE IF response.raised # "" THEN Raised
       ELSE json_loads(response.body)

\* load_conversation on the local files (lines 94-98)
load_file(store, session_id, fault) ==
    LET file_path == get_memory_path(session_id)
    IN IF store[file_path].exists
         THEN IF fault # "none" THEN Raised ELSE json_loads(store[file_path].body)
       ELSE Returned(<<>>)

\* load_conversation: the list of messages returned, or an exception
load_conversation(store, session_id, fault) ==
    IF USE_S3 THEN load_s3(store, session_id, fault)
    ELSE load_file(store, session_id, fault)

\* what open(file_path, "w") followed by a failed json.dump leaves behind
Truncated(body) == SubSeq(body, 1, Len(body) - 1)

\* Written appending to what the document held, as open(file_path, "a") would
WrittenAppended(old, body) == Document(old.body \o body)

\* Written merging the new array into the array the document holds
WrittenMerged(old, body) ==
    IF old.exists /\ old.body # <<>> /\ old.body[Len(old.body)] = "]"
      THEN Document(SubSeq(old.body, 1, Len(old.body) - 1) \o Tail(body))
      ELSE Document(body)

\* the document written by a save: the whole new body replaces the old one
Written(old, body) == Document(body)

\* save_conversation: the storage afterwards and whether it raised
save_conversation(store, session_id, messages, fault) ==
    LET key == get_memory_path(session_id)
        body == json_dumps(messages)
    IN IF fault = "none"
         THEN [raised |-> FALSE,
               store |-> [store EXCEPT ![key] = Written(store[key], body)]]
       ELSE IF fault = "write"
         THEN [raised |-> TRUE,
               store |-> [store EXCEPT ![key] = Document(Truncated(body))]]
       ELSE [raised |-> TRUE, store |-> store]

(***************************************************************************)
(* call_bedrock: the message list and the failover loop.                   *)
(***************************************************************************)
\* {"role": ..., "content": [{"text": ...}]}
Turn(role, text) == [role |-> role, content |-> <<[text |-> text]>>]

\* HistoryWindow taking the first messages of the log, conversation[:20]
HistoryWindowOldest(conversation) ==
    Slice(conversation, 0, Min(Len(conversation), HistoryLimit))

\* conversation[-20:]
HistoryWindow(conversation) ==
    Slice(conversation, Max(Len(conversation) - HistoryLimit, 0), Len(conversation))

\* lines 123-142
BuildMessages(conversation, user_message) ==
    LET window == HistoryWindow(conversation)
    IN <<Turn("user", SystemText)>>
       \o [i \in 1..Len(window) |-> Turn(window[i].role, window[i].content)]
       \o <<Turn("user", user_message)>>

\* error codes of a ClientError raised by client.converse
ErrorCodes == {"ThrottlingException", "ValidationException",
               "AccessDeniedException", "InternalServerException"}

\* Classify with AccessDeniedException falling into the else branch
ClassifyAccessDeniedFatal(error_code) ==
    IF error_code = "ThrottlingException" THEN "next-region"
    ELSE IF error_code = "ValidationException" THEN "invalid"
    ELSE "other"

\* Classify with ValidationException retried on the next region
ClassifyValidationRetried(error_code) ==
    IF error_code \in {"ThrottlingException", "ValidationException",
                       "AccessDeniedException"} THEN "next-region"
    ELSE "other"

\* Classify with every unlisted error code retried on the next region
ClassifyOtherRetried(error_code) ==
    IF error_code = "ValidationException" THEN "invalid"
    ELSE "next-region"

\* the branch of lines 172-195 an error code takes
Classify(error_code) ==
    IF error_code = "ThrottlingException" THEN "next-region"
    ELSE IF error_code = "ValidationException" THEN "invalid"
    ELSE IF error_code = "AccessDeniedException" THEN "next-region"
    ELSE "other"

\* NextRegionIndex without the wrap-around
NextRegionIndexNoWrap(index, region_count) == index + 1

\* NextRegionIndex that leaves the cursor where it is
NextRegionIndexStay(index, region_count) == index

\* lines 176 and 189
NextRegionIndex(index, region_count) == (index + 1) % region_count

\* LoopTest admitting one attempt more than there are regions
LoopTestInclusive(regions_tried, region_count) == regions_tried <= region_count

\* line 148: while regions_tried < len(BEDROCK_REGIONS)
LoopTest(regions_tried, region_count) == regions_tried < region_count

\* HTTPException(status_code, detail)
HTTPException(status_code, detail) == [status_code |-> status_code, detail |-> detail]

NoError == HTTPException(0, <<>>)

\* lines 199-202: the detail names the configured region list
Exhausted(regions) == HTTPException(429, <<"All Bedrock regions throttled", regions>>)

(***************************************************************************)
(* The state of one chat request.                                          *)
(*   pc: "idle"     no request in this handler                             *)
(*       "load"     line 233, before load_conversation                     *)
(*       "converse" line 148, before the next client.converse              *)
(*       "respond"  line 156, the converse call is in flight               *)
(*       "save"     line 251, before save_conversation                     *)
(*       "done"     returned a response or raised an HTTPException         *)
(*   op: "chat" or "get", the endpoint that was called                     *)
(*   attempts, start_index, alone and wrote record what the call did; the  *)
(*   code does not read them.                                              *)
(***************************************************************************)
Idle ==
    [pc |-> "idle", op |-> "", message |-> "", request_session_id |-> None,
     session_id |-> "", conversation |-> <<>>, messages |-> <<>>,
     regions_tried |-> 0, region |-> "", assistant_response |-> "",
     error |-> NoError, response |-> <<>>,
     attempts |-> <<>>, start_index |-> 0, alone |-> TRUE, wrote |-> FALSE]

\* ChatResponse(response, session_id)
ChatResponse(response, session_id) == <<[response |-> response, session_id |-> session_id]>>

\* the log found in storage at start-up: whole turns written by earlier requests
SeedLog(turns) ==
    [i \in 1..(2 * turns) |->
        LET text == "old-" \o ToString((i + 1) \div 2)
        IN IF i % 2 = 1
             THEN Msg("user", text, isoformat(i))
             ELSE Msg("assistant", "re:" \o text \o "@" \o RegionPool[1], isoformat(i))]

RegionLists == {SubSeq(RegionPool, 1, n) : n \in 1..MaxRegions}

Init ==
    /\ USE_S3 \in BOOLEAN
    /\ BEDROCK_REGIONS \in RegionLists
    /\ current_region_index = 0
    /\ storage = [p \in Paths |->
                    IF p = get_memory_path(SeededId)
                      THEN Document(json_dumps(SeedLog(SeedTurns)))
                      ELSE NoDocument]
    /\ req = [r \in Handlers |-> Idle]
    /\ issued = {}
    /\ revealed = {}
    /\ calls = 0

Config == <<USE_S3, BEDROCK_REGIONS>>

\* str(uuid.uuid4()): an id no earlier call of uuid4 has returned
uuid4 == UUIDPool[Cardinality(issued) + 1]

\* ResolveSessionId falling back on one fixed session id
ResolveSessionIdShared(request_session_id, uuid) ==
    IF request_session_id = None \/ request_session_id = Some("")
      THEN SeededId
      ELSE request_session_id[1]

\* ResolveSessionId generating an id for every request
ResolveSessionIdAlwaysNew(request_session_id, uuid) == uuid

\* request.session_id or str(uuid.uuid4())  (line 230)
ResolveSessionId(request_session_id, uuid) ==
    IF request_session_id = None \/ request_session_id = Some("")
      THEN uuid
      ELSE request_session_id[1]

\* the session ids a client can put in a request: none, the empty string,
\* an id of its own, or an id some response has given out
RequestSessionIds == {None, Some("")} \cup {Some(s) : s \in {SeededId} \cup revealed}

\* chat, line 230: the request arrives at the first free handler and its
\* session id is settled
ChatBegin(r, message, request_session_id) ==
    /\ req[r].pc = "idle"
    /\ \A q \in Handlers : q < r => req[q].pc # "idle"
    /\ calls < MaxCalls
    /\ LET uuid == uuid4
           session_id == ResolveSessionId(request_session_id, uuid)
       IN /\ req' = [req EXCEPT ![r] =
                        [Idle EXCEPT !.pc = "load", !.op = "chat", !.message = message,
                                     !.request_session_id = request_session_id,
                                     !.session_id = session_id]]
          /\ issued' = IF session_id = uuid THEN issued \cup {uuid} ELSE issued
    /\ calls' = calls + 1
    /\ UNCHANGED <<Config, current_region_index, storage, revealed>>

\* lines 257-259: any exception that is no HTTPException becomes a 500
InternalError == HTTPException(500, <<"str(e)">>)

\* ChatLoad taking a load that raised for an empty history
ChatLoadLenient(r, fault) ==
    /\ req[r].pc = "load"
    /\ LET loaded == load_conversation(storage, req[r].session_id, fault)
       IN req' = [req EXCEPT ![r] =
                    [@ EXCEPT !.pc = "converse",
                              !.conversation = loaded.value,
                              !.messages = BuildMessages(loaded.value, req[r].message),
                              !.regions_tried = 0,
                              !.start_index = current_region_index]]
    /\ UNCHANGED <<Config, current_region_index, storage, issued, revealed, calls>>

\* chat, line 233, and call_bedrock, lines 123-146: the history is loaded and
\* the message list is built; an exception of the load ends the request
ChatLoad(r, fault) ==
    /\ req[r].pc = "load"
    /\ LET loaded == load_conversation(storage, req[r].session_id, fault)
       IN req' = [req EXCEPT ![r] =
                    IF loaded.ok
                      THEN [@ EXCEPT !.pc = "converse",
                                     !.conversation = loaded.value,
                                     !.messages = BuildMessages(loaded.value, req[r].message),
                                     !.regions_tried = 0,
                                     !.start_index = current_region_index]
                      ELSE [@ EXCEPT !.pc = "done", !.error = InternalError]]
    /\ UNCHANGED <<Config, current_region_index, storage, issued, revealed, calls>>

\* Converse walking the region list from its first entry, not from the cursor
ConverseFromFirst(r) ==
    /\ req[r].pc = "converse"
    /\ LoopTest(req[r].regions_tried, Len(BEDROCK_REGIONS))
    /\ req' = [req EXCEPT ![r].pc = "respond",
                          ![r].region = BEDROCK_REGIONS[req[r].regions_tried + 1]]
    /\ UNCHANGED <<Config, current_region_index, storage, issued, revealed, calls>>

\* call_bedrock, lines 148-156: the loop test, the region under the cursor
\* and the converse call sent to it
Converse(r) ==
    /\ req[r].pc = "converse"
    /\ LoopTest(req[r].regions_tried, Len(BEDROCK_REGIONS))
    /\ req' = [req EXCEPT ![r].pc = "respond",
                          ![r].region = BEDROCK_REGIONS[current_region_index + 1]]
    /\ UNCHANGED <<Config, current_region_index, storage, issued, revealed, calls>>

Attempt(region, outcome) == [region |-> region, outcome |-> outcome]

\* AppendTurn with the user message appended alone
AppendTurnUserOnly(conversation, message, assistant_response, timestamp) ==
    conversation \o <<Msg("user", message, timestamp)>>

\* chat, lines 239-248: both messages of the turn, stamped with datetime.now()
AppendTurn(conversation, message, assistant_response, timestamp) ==
    conversation \o <<Msg("user", message, timestamp),
                      Msg("assistant", assistant_response, timestamp)>>

\* call_bedrock, line 167, and chat, lines 239-248: the reply is extracted
\* and the turn is appended to the in-memory conversation
ConverseSuccess(r) ==
    /\ req[r].pc = "respond"
    /\ LET text == ReplyText(req[r].region, req[r].messages) IN
       req' = [req EXCEPT ![r] =
                 [@ EXCEPT !.pc = "save",
                           !.assistant_response = text,
                           !.attempts = Append(@, Attempt(req[r].region, "Success")),
                           !.conversation =
                               AppendTurn(@, req[r].message, text, isoformat(Clock))]]
    /\ UNCHANGED <<Config, current_region_index, storage, issued, revealed, calls>>

\* the handlers other than r that are inside the failover loop
InDispatch(r) == {q \in Handlers \ {r} : req[q].pc \in {"converse", "respond"}}

\* call_bedrock, lines 172-178 and 185-191, then the loop test of line 148
\* and the exhaustion of lines 198-202
ConverseNextRegion(r, error_code) ==
    /\ req[r].pc = "respond"
    /\ Classify(error_code) = "next-region"
    /\ current_region_index' =
           NextRegionIndex(current_region_index, Len(BEDROCK_REGIONS))
    /\ LET tried == req[r].regions_tried + 1
           again == LoopTest(tried, Len(BEDROCK_REGIONS))
           after == [req[r] EXCEPT
                        !.regions_tried = tried,
                        !.attempts = Append(@, Attempt(req[r].region, error_code)),
                        !.pc = IF again THEN "converse" ELSE "done",
                        !.error = IF again THEN NoError
                                  ELSE Exhausted(BEDROCK_REGIONS)]
       IN req' = [q \in Handlers |->
                    IF q = r THEN after
                    ELSE IF q \in InDispatch(r) THEN [req[q] EXCEPT !.alone = FALSE]
                    ELSE req[q]]
    /\ UNCHANGED <<Config, storage, issued, revealed, calls>>

\* ConverseFail moving the cursor on as the retried branches do
ConverseFailAdvancing(r, error_code) ==
    /\ req[r].pc = "respond"
    /\ Classify(error_code) \in {"invalid", "other"}
    /\ current_region_index' =
           NextRegionIndex(current_region_index, Len(BEDROCK_REGIONS))
    /\ req' = [req EXCEPT ![r] =
                 [@ EXCEPT !.pc = "done",
                           !.attempts = Append(@, Attempt(req[r].region, error_code)),
                           !.error =
                               IF Classify(error_code) = "invalid"
                                 THEN HTTPException(400, <<"Invalid message format for Bedrock">>)
                                 ELSE HTTPException(500, <<"Bedrock error", error_code>>)]]
    /\ UNCHANGED <<Config, storage, issued, revealed, calls>>

\* call_bedrock, lines 180-183 and 193-195: no retry
ConverseFail(r, error_code) ==
    /\ req[r].pc = "respond"
    /\ Classify(error_code) \in {"invalid", "other"}
    /\ req' = [req EXCEPT ![r] =
                 [@ EXCEPT !.pc = "done",
                           !.attempts = Append(@, Attempt(req[r].region, error_code)),
                           !.error =
                               IF Classify(error_code) = "invalid"
                                 THEN HTTPException(400, <<"Invalid message format for Bedrock">>)
                                 ELSE HTTPException(500, <<"Bedrock error", error_code>>)]]
    /\ UNCHANGED <<Config, current_region_index, storage, issued, revealed, calls>>

\* client.converse raises something that is no ClientError: it leaves
\* call_bedrock and reaches lines 257-259 of chat
ConverseRaise(r) ==
    /\ req[r].pc = "respond"
    /\ req' = [req EXCEPT ![r] =
                 [@ EXCEPT !.pc = "done",
                           !.attempts = Append(@, Attempt(req[r].region, "Exception")),
                           !.error = InternalError]]
    /\ UNCHANGED <<Config, current_region_index, storage, issued, revealed, calls>>

\* AfterSave with the exception of the save swallowed
AfterSaveSwallowed(request, raised) ==
    [request EXCEPT !.pc = "done",
                    !.response = ChatResponse(request.assistant_response,
                                              request.session_id)]

\* chat, lines 253-259: what the request ends with after save_conversation
\* has returned or raised
AfterSave(request, raised) ==
    IF raised
      THEN [request EXCEPT !.pc = "done", !.error = InternalError]
      ELSE [request EXCEPT !.pc = "done",
                           !.response = ChatResponse(request.assistant_response,
                                                     request.session_id)]

\* chat, lines 251-259: the whole conversation is saved and the reply is
\* returned; an exception of the save becomes a 500
ChatSave(r, fault) ==
    /\ req[r].pc = "save"
    /\ LET saved == save_conversation(storage, req[r].session_id, req[r].conversation, fault)
       IN /\ storage' = saved.store
          /\ req' = [req EXCEPT ![r] =
                       [AfterSave(@, saved.raised) EXCEPT !.wrote = (saved.store # storage)]]
          /\ revealed' = IF ~saved.raised /\ req[r].session_id \in UUIDs
                           THEN revealed \cup {req[r].session_id} ELSE revealed
    /\ UNCHANGED <<Config, current_region_index, issued, calls>>

\* the response or the error has gone to the client; the handler is free
ChatEnd(r) ==
    /\ req[r].pc = "done"
    /\ req' = [req EXCEPT ![r] = Idle]
    /\ UNCHANGED <<Config, current_region_index, storage, issued, revealed, calls>>

\* the session ids a client can ask get_conversation for
KnownIds == ClientIds \cup revealed

\* GetConversation storing an empty log for a session id that has none
GetConversationCreating(r, session_id, fault) ==
    /\ req[r].pc = "idle"
    /\ \A q \in Handlers : q < r => req[q].pc # "idle"
    /\ calls < MaxCalls
    /\ LET loaded == load_conversation(storage, session_id, fault)
           key == get_memory_path(session_id)
       IN /\ req' = [req EXCEPT ![r] =
                       IF loaded.ok
                         THEN [Idle EXCEPT !.pc = "done", !.op = "get",
                                           !.session_id = session_id,
                                           !.response = <<[session_id |-> session_id,
                                                           messages |-> loaded.value]>>]
                         ELSE [Idle EXCEPT !.pc = "done", !.op = "get",
                                           !.session_id = session_id,
                                           !.error = InternalError]]
          /\ storage' = IF loaded.ok /\ ~storage[key].exists
                           THEN [storage EXCEPT ![key] = Document(json_dumps(<<>>))]
                           ELSE storage
    /\ calls' = calls + 1
    /\ UNCHANGED <<Config, current_region_index, issued, revealed>>

\* get_conversation, lines 262-269: one load, returned as it is; any
\* exception becomes a 500
GetConversation(r, session_id, fault) ==
    /\ req[r].pc = "idle"
    /\ \A q \in Handlers : q < r => req[q].pc # "idle"
    /\ calls < MaxCalls
    /\ LET loaded == load_conversation(storage, session_id, fault)
       IN req' = [req EXCEPT ![r] =
                    IF loaded.ok
                      THEN [Idle EXCEPT !.pc = "done", !.op = "get",
                                        !.session_id = session_id,
                                        !.response = <<[session_id |-> session_id,
                                                        messages |-> loaded.value]>>]
                      ELSE [Idle EXCEPT !.pc = "done", !.op = "get",
                                        !.session_id = session_id,
                                        !.error = InternalError]]
    /\ calls' = calls + 1
    /\ UNCHANGED <<Config, current_region_index, storage, issued, revealed>>

Next ==
    \/ \E r \in Handlers, sid \in RequestSessionIds :
          ChatBegin(r, UserText(calls + 1), sid)
    \/ \E r \in Handlers, fault \in LoadFaults : ChatLoad(r, fault)
    \/ \E r \in Handlers : Converse(r)
    \/ \E r \in Handlers : ConverseSuccess(r)
    \/ \E r \in Handlers, error_code \in ErrorCodes : ConverseNextRegion(r, error_code)
    \/ \E r \in Handlers, error_code \in ErrorCodes : ConverseFail(r, error_code)
    \/ \E r \in Handlers : ConverseRaise(r)
    \/ \E r \in Handlers, fault \in SaveFaults : ChatSave(r, fault)
    \/ \E r \in Handlers : ChatEnd(r)
    \/ \E r \in Handlers, session_id \in KnownIds, fault \in LoadFaults :
          GetConversation(r, session_id, fault)

Spec == Init /\ [][Next]_vars

\* the steps of the failover loop of one request: the call sent and what
\* client.converse returns or raises
DispatchStep(r) ==
    \/ Converse(r)
    \/ ConverseSuccess(r)
    \/ \E error_code \in ErrorCodes : ConverseNextRegion(r, error_code)
    \/ \E error_code \in ErrorCodes : ConverseFail(r, error_code)
    \/ ConverseRaise(r)

\* every converse call returns or raises, and a handler that can run does run
FairSpec == Spec /\ \A r \in Handlers : WF_vars(DispatchStep(r))

(***************************************************************************)
(* Vocabulary of the properties.                                           *)
(***************************************************************************)
Range(f) == {f[i] : i \in DOMAIN f}

RegionCount == Len(BEDROCK_REGIONS)

\* the chat requests in progress or just answered
Chats == {r \in Handlers : req[r].op = "chat"}

\* the get_conversation requests just answered
Gets == {r \in Handlers : req[r].op = "get"}

\* the log a fault-free load finds under a session id; ok is FALSE when the
\* stored document cannot be decoded
StoredLog(store, session_id) == load_conversation(store, session_id, "none")

\* a text some region generates for a user text
IsReplyTo(reply, text) ==
    \E region \in Range(RegionPool) : reply = ReplyText(region, <<Turn("user", text)>>)

\* a log made of whole turns: a user message, then the reply produced for it
CompleteTurns(log) ==
    /\ Len(log) % 2 = 0
    /\ \A i \in 1..Len(log) :
          IF i % 2 = 1
            THEN /\ log[i].role = "user"
                 /\ i + 1 <= Len(log)
                 /\ log[i + 1].role = "assistant"
                 /\ IsReplyTo(log[i + 1].content, log[i].content)
            ELSE log[i].role = "assistant"

Retried == {"ThrottlingException", "AccessDeniedException"}

Outcomes(r) == [i \in 1..Len(req[r].attempts) |-> req[r].attempts[i].outcome]

Failed(r) == req[r].pc = "done" /\ req[r].error # NoError

Succeeded(r) == req[r].pc = "done" /\ req[r].error = NoError

(***************************************************************************)
(* C1.  Every stored conversation log consists of complete turns only: a   *)
(* user message is in a log only when the assistant reply produced for it  *)
(* follows it immediately, whatever chat calls have succeeded or failed.   *)
(***************************************************************************)
C1_CompleteTurns ==
    \A s \in SessionIds :
        StoredLog(storage, s).ok => CompleteTurns(StoredLog(storage, s).value)

\* a chat has failed, another has stored its turn after the seeded log
C1_Witness ==
    \E r, q \in Chats :
        /\ Failed(q)
        /\ Succeeded(r) /\ req[r].wrote
        /\ StoredLog(storage, req[r].session_id).ok
        /\ StoredLog(storage, req[r].session_id).value = req[r].conversation
        /\ Len(req[r].conversation) > 2

(***************************************************************************)
(* C2.  When the first N-1 attempts of a chat call are throttled and the   *)
(* N-th succeeds (N the number of regions, no other call moving the cursor *)
(* meanwhile), the call has the reply of the region that succeeded, the    *)
(* cursor stands on that region, which is N-1 advances modulo N from where *)
(* the call found it, the cursor moves in no step but a failover, and a    *)
(* call's first attempt goes to the region under the cursor.               *)
(***************************************************************************)
ThrottledThenSuccess(attempts) ==
    /\ Len(attempts) = RegionCount
    /\ \A i \in 1..(RegionCount - 1) : attempts[i].outcome = "ThrottlingException"
    /\ attempts[RegionCount].outcome = "Success"

C2_SuccessStep ==
    \A r \in Handlers :
        (/\ req[r].pc = "respond"
         /\ req'[r].pc = "save"
         /\ req[r].alone
         /\ ThrottledThenSuccess(req'[r].attempts))
        => /\ current_region_index' = (req[r].start_index + RegionCount - 1) % RegionCount
           /\ BEDROCK_REGIONS[current_region_index' + 1] = req[r].region
           /\ req'[r].assistant_response = ReplyText(req[r].region, req[r].messages)

C2_CursorKept ==
    current_region_index' # current_region_index
    => \E r \in Handlers :
          /\ req[r].pc = "respond"
          /\ Len(req'[r].attempts) = Len(req[r].attempts) + 1
          /\ req'[r].attempts[Len(req'[r].attempts)].outcome \in Retried

C2_FirstAttempt ==
    \A r \in Handlers :
        (req[r].pc = "converse" /\ req'[r].pc = "respond")
        => req'[r].region = BEDROCK_REGIONS[current_region_index + 1]

C2_FailoverCursor ==
    [][C2_SuccessStep /\ C2_CursorKept /\ C2_FirstAttempt]_vars

\* one call was throttled on the first region and answered by the second;
\* the call after it has sent its first attempt to that second region
C2_Witness ==
    \E r, q \in Chats :
        /\ r # q
        /\ RegionCount = 2
        /\ Succeeded(r) /\ req[r].alone
        /\ ThrottledThenSuccess(req[r].attempts)
        /\ req[r].response[1].response = req[r].assistant_response
        /\ req[q].pc = "respond" /\ req[q].attempts = <<>>
        /\ req[q].region = req[r].attempts[2].region
        /\ req[q].region = BEDROCK_REGIONS[2]

(***************************************************************************)
(* C3.  A chat call all of whose attempts ended in ThrottlingException or  *)
(* AccessDeniedException fails with status 429, its detail names every     *)
(* region it attempted, and it has written nothing to the storage.         *)
(***************************************************************************)
C3_Exhausted ==
    \A r \in Chats :
        (/\ req[r].pc = "done"
         /\ req[r].attempts # <<>>
         /\ \A i \in 1..Len(req[r].attempts) : req[r].attempts[i].outcome \in Retried)
        => /\ Len(req[r].attempts) = RegionCount
           /\ req[r].error.status_code = 429
           /\ {req[r].attempts[i].region : i \in 1..Len(req[r].attempts)}
                  \subseteq Range(req[r].error.detail[2])
           /\ req[r].response = <<>>
           /\ ~req[r].wrote

\* a call that met both error codes and ran out of regions
C3_Witness ==
    \E r \in Chats :
        /\ req[r].pc = "done"
        /\ Outcomes(r) = <<"ThrottlingException", "AccessDeniedException">>
        /\ req[r].error.status_code = 429

(***************************************************************************)
(* C4.  A ValidationException ends the chat call at that attempt with      *)
(* status 400: it is the last attempt of the call, so when the first       *)
(* attempted region answers with it no other region is attempted.          *)
(***************************************************************************)
C4_InvalidRequest ==
    \A r \in Chats :
        \A i \in 1..Len(req[r].attempts) :
            req[r].attempts[i].outcome = "ValidationException"
            => /\ i = Len(req[r].attempts)
               /\ req[r].pc = "done"
               /\ req[r].error.status_code = 400
               /\ req[r].regions_tried = i - 1

\* the first region answered with a ValidationException, another region was left
C4_Witness ==
    \E r \in Chats :
        /\ RegionCount > 1
        /\ Outcomes(r) = <<"ValidationException">>
        /\ req[r].error.status_code = 400

(***************************************************************************)
(* C5.  As claimed: when the inference call of a chat request has          *)
(* succeeded, the request returns the generated reply, also when the save  *)
(* fails afterwards.                                                       *)
(***************************************************************************)
C5_ReplyDespiteSaveFailure ==
    \A r \in Chats :
        (req[r].pc = "done" /\ req[r].assistant_response # "")
        => /\ req[r].error = NoError
           /\ req[r].response = ChatResponse(req[r].assistant_response, req[r].session_id)

(***************************************************************************)
(* C5, amended.  When the inference call has succeeded, the request either *)
(* returns the generated reply, having stored the turn, or (the save       *)
(* raised) fails with status 500 and returns no reply.                     *)
(***************************************************************************)
C5_SaveFailureIs500 ==
    \A r \in Chats :
        (req[r].pc = "done" /\ req[r].assistant_response # "")
        => \/ /\ req[r].error = NoError
              /\ req[r].response = ChatResponse(req[r].assistant_response, req[r].session_id)
              /\ req[r].wrote
           \/ /\ req[r].error.status_code = 500
              /\ req[r].response = <<>>

\* the inference succeeded, the save raised, the request failed with 500
C5_Witness ==
    \E r \in Chats :
        /\ req[r].pc = "done"
        /\ req[r].assistant_response # ""
        /\ req[r].error.status_code = 500

(***************************************************************************)
(* C6.  The message list sent to the inference backend is one leading      *)
(* system entry, then the last min(20, length) messages of the loaded log  *)
(* in their order, then the new user message; it never carries more than   *)
(* 20 prior messages.                                                      *)
(***************************************************************************)
C6_MessageList ==
    \A r \in Chats :
        req[r].pc \in {"converse", "respond"}
        => LET log == req[r].conversation
               sent == req[r].messages
               kept == IF Len(log) < HistoryLimit THEN Len(log) ELSE HistoryLimit
           IN /\ Len(sent) = kept + 2
              /\ Len(sent) <= HistoryLimit + 2
              /\ sent[1] = [role |-> "user", content |-> <<[text |-> SystemText]>>]
              /\ sent[Len(sent)] =
                     [role |-> "user", content |-> <<[text |-> req[r].message]>>]
              /\ \A i \in 1..kept :
                     sent[1 + i] =
                         [role |-> log[Len(log) - kept + i].role,
                          content |-> <<[text |-> log[Len(log) - kept + i].content]>>]

\* a request whose loaded log is longer than the window
C6_Witness ==
    \E r \in Chats :
        /\ req[r].pc = "respond"
        /\ Len(req[r].conversation) > HistoryLimit
        /\ Len(req[r].messages) = HistoryLimit + 2

(***************************************************************************)
(* C7.  The region cursor is a valid index into the configured region      *)
(* list in every reachable state, whatever the interleaving of the         *)
(* dispatch calls that share it.                                           *)
(***************************************************************************)
C7_CursorValid ==
    /\ current_region_index \in 0..(RegionCount - 1)
    /\ \A r \in Chats : req[r].pc = "respond" => req[r].region \in Range(BEDROCK_REGIONS)

\* two calls in the failover loop have both advanced the cursor, which has
\* wrapped around to the first region
C7_Witness ==
    \E r, q \in Chats :
        /\ r # q
        /\ req[r].pc \in {"converse", "respond"} /\ req[r].attempts # <<>>
        /\ req[q].pc \in {"converse", "respond"} /\ req[q].attempts # <<>>
        /\ ~req[r].alone
        /\ RegionCount > 1
        /\ current_region_index = 0

(***************************************************************************)
(* C8.  A save that succeeds is read back by a load as exactly the         *)
(* messages saved, in their order, whatever the document held before: the  *)
(* save overwrites, it does not append.                                    *)
(***************************************************************************)
C8_SaveStep ==
    \A r \in Handlers :
        (req[r].pc = "save" /\ req'[r].pc = "done" /\ req'[r].error = NoError)
        => StoredLog(storage', req[r].session_id) = Returned(req[r].conversation)

C8_RoundTrip == [][C8_SaveStep]_vars

\* a save over a document that held a log already, read back as saved
C8_Witness ==
    \E r \in Chats :
        /\ Succeeded(r) /\ req[r].wrote
        /\ Len(req[r].conversation) > 2
        /\ StoredLog(storage, req[r].session_id) = Returned(req[r].conversation)

(***************************************************************************)
(* C9.  For a session id with no stored document a load returns the empty  *)
(* sequence on both backends (the object storage answers NoSuchKey, which  *)
(* is mapped to the empty sequence); every other storage error raises, and *)
(* get_conversation then fails with status 500.                            *)
(***************************************************************************)
C9_LoadNotFound ==
    /\ \A s \in SessionIds :
          ~storage[get_memory_path(s)].exists
          => /\ load_conversation(storage, s, "none") = Returned(<<>>)
             /\ USE_S3 => s3_get_object(storage, get_memory_path(s), "none").code = "NoSuchKey"
    /\ \A s \in SessionIds, fault \in LoadFaults \ {"none"} :
          (USE_S3 \/ storage[get_memory_path(s)].exists)
          => ~load_conversation(storage, s, fault).ok
    /\ \A r \in Gets :
          /\ ~storage[get_memory_path(req[r].session_id)].exists
             => \/ req[r].response = <<[session_id |-> req[r].session_id, messages |-> <<>>]>>
                \/ USE_S3 /\ req[r].error.status_code = 500
          /\ req[r].error # NoError => req[r].error.status_code = 500 /\ req[r].response = <<>>

\* get_conversation on the object storage for an id with no document
C9_Witness ==
    \E r \in Gets :
        /\ USE_S3
        /\ ~storage[get_memory_path(req[r].session_id)].exists
        /\ req[r].response = <<[session_id |-> req[r].session_id, messages |-> <<>>]>>

(***************************************************************************)
(* C10.  A chat call made without a session id works on a generated,       *)
(* non-empty session id that names no stored document and no other request *)
(* before the call stores its turn; when the call succeeds its log is      *)
(* exactly its user message and its reply, and a get_conversation with the *)
(* returned id gives that log back.                                        *)
(***************************************************************************)
C10_FreshSession ==
    \A r \in Chats :
        req[r].request_session_id = None
        => /\ req[r].session_id \in UUIDs
           /\ req[r].session_id # ""
           /\ \A q \in Handlers \ {r} :
                 req[q].session_id = req[r].session_id => Succeeded(r)
           /\ req[r].pc \in {"load", "converse", "respond", "save"}
              => ~storage[get_memory_path(req[r].session_id)].exists
           /\ req[r].pc \in {"converse", "respond"} => req[r].conversation = <<>>
           /\ Succeeded(r)
              => /\ req[r].response[1].session_id = req[r].session_id
                 /\ req[r].conversation =
                        <<Msg("user", req[r].message, req[r].conversation[1].timestamp),
                          Msg("assistant", req[r].assistant_response,
                              req[r].conversation[2].timestamp)>>
                 /\ \A q \in Gets :
                       (/\ Succeeded(q)
                        /\ req[q].session_id = req[r].session_id
                        /\ StoredLog(storage, req[r].session_id) = Returned(req[r].conversation))
                       => req[q].response[1].messages = req[r].conversation

\* a chat without session id has succeeded and get_conversation has returned its turn
C10_Witness ==
    \E r \in Chats, q \in Gets :
        /\ req[r].request_session_id = None
        /\ Succeeded(r) /\ Succeeded(q)
        /\ req[q].session_id = req[r].response[1].session_id
        /\ Len(req[q].response[1].messages) = 2
        /\ req[q].response[1].messages[1].content = req[r].message
        /\ req[q].response[1].messages[2].content = req[r].assistant_response

\* the texts of the messages of a log
Contents(log) == {log[i].content : i \in 1..Len(log)}

\* two chat requests that worked on one session, neither having loaded the
\* turn of the other: both loads came before both saves
Interleaved(r, q) ==
    /\ r # q
    /\ req[r].session_id = req[q].session_id
    /\ req[q].message \notin Contents(req[r].conversation)
    /\ req[r].message \notin Contents(req[q].conversation)

(***************************************************************************)
(* C11.  Two chat requests on one session whose loads both came before     *)
(* their saves both return a reply, and the stored log then holds the turn *)
(* of at most one of them, the last writer: nothing keeps the other turn.  *)
(***************************************************************************)
C11_LastWriterWins ==
    \A r, q \in Chats :
        (Interleaved(r, q) /\ Succeeded(r) /\ Succeeded(q))
        => LET log == StoredLog(storage, req[r].session_id)
           IN /\ req[r].response = ChatResponse(req[r].assistant_response, req[r].session_id)
              /\ req[q].response = ChatResponse(req[q].assistant_response, req[q].session_id)
              /\ log.ok => ~({req[r].message, req[q].message} \subseteq Contents(log.value))
              /\ (NumHandlers = 2 /\ log.ok)
                 => log.value \in {req[r].conversation, req[q].conversation}

\* both requests have returned their reply; the stored log is the one the
\* last writer saved and the turn of the other request is not in it
C11_Witness ==
    \E r, q \in Chats :
        /\ Interleaved(r, q) /\ Succeeded(r) /\ Succeeded(q)
        /\ req[r].wrote /\ req[q].wrote
        /\ req[r].response # <<>> /\ req[q].response # <<>>
        /\ StoredLog(storage, req[r].session_id) = Returned(req[r].conversation)
        /\ req[q].message \notin Contents(StoredLog(storage, req[r].session_id).value)
        /\ req[q].assistant_response
              \notin Contents(StoredLog(storage, req[r].session_id).value)

\* the request has entered call_bedrock and has left it
DispatchEnded(r) ==
    /\ req[r].messages # <<>>
    /\ req[r].pc \in {"save", "done"}

AllRetried(attempts) == \A i \in 1..Len(attempts) : attempts[i].outcome \in Retried

(***************************************************************************)
(* C12.  A dispatch call makes at least one and at most region_count       *)
(* attempts: every attempt but the last ended in ThrottlingException or    *)
(* AccessDeniedException, the call ends at the first attempt that ends     *)
(* otherwise, it ends with exhaustion exactly when region_count attempts   *)
(* ended that way, and every call that has started ends.                   *)
(***************************************************************************)
C12_Attempts ==
    \A r \in Chats :
        LET attempts == req[r].attempts
            n == Len(attempts)
        IN /\ n <= RegionCount
           /\ req[r].regions_tried <= n
           /\ \A i \in 1..(n - 1) : attempts[i].outcome \in Retried
           /\ (n > 0 /\ attempts[n].outcome \notin Retried) => DispatchEnded(r)
           /\ (n = RegionCount /\ AllRetried(attempts)) => DispatchEnded(r)
           /\ DispatchEnded(r)
              => /\ n >= 1
                 /\ (req[r].error.status_code = 429)
                       <=> (n = RegionCount /\ AllRetried(attempts))
                 /\ req[r].error.status_code = 429 => req[r].pc = "done"

C12_Terminates ==
    /\ []C12_Attempts
    /\ \A r \in Handlers :
          (req[r].pc \in {"converse", "respond"}) ~> DispatchEnded(r)

\* one call has ended at its first attempt, another after region_count attempts
C12_Witness ==
    \E r, q \in Chats :
        /\ RegionCount > 1
        /\ DispatchEnded(r) /\ Len(req[r].attempts) = 1
        /\ DispatchEnded(q) /\ Len(req[q].attempts) = RegionCount
        /\ req[q].error.status_code = 429

(***************************************************************************)
(* C13.  An attempt that ends in an error other than ThrottlingException,  *)
(* AccessDeniedException and ValidationException is the last attempt of    *)
(* its call, which fails with status 500 and returns no reply, whatever    *)
(* regions are left untried.                                               *)
(***************************************************************************)
C13_OtherError ==
    \A r \in Chats :
        \A i \in 1..Len(req[r].attempts) :
            req[r].attempts[i].outcome \notin Retried \cup {"ValidationException", "Success"}
            => /\ i = Len(req[r].attempts)
               /\ req[r].pc = "done"
               /\ req[r].error.status_code = 500
               /\ req[r].attempts[i].outcome \in ErrorCodes
                  => req[r].error.detail = <<"Bedrock error", req[r].attempts[i].outcome>>
               /\ req[r].regions_tried = i - 1
               /\ req[r].response = <<>>
               /\ ~req[r].wrote

\* the first region answered with an InternalServerException, another region
\* was left untried
C13_Witness ==
    \E r \in Chats :
        /\ RegionCount > 1
        /\ Outcomes(r) = <<"InternalServerException">>
        /\ req[r].error.status_code = 500
        /\ req[r].regions_tried = 0

\* the step in which an attempt of request r ends, and how it ended
AttemptEnds(r) ==
    /\ req[r].pc = "respond"
    /\ Len(req'[r].attempts) = Len(req[r].attempts) + 1

LastOutcome(attempts) == attempts[Len(attempts)].outcome

(***************************************************************************)
(* C14.  An attempt that ends in Success, ValidationException or any other *)
(* non-retried error leaves the region cursor as it is; an attempt that    *)
(* ends in ThrottlingException or AccessDeniedException advances it by one *)
(* position modulo region_count; no other step changes the cursor.  So a   *)
(* call whose first attempt succeeds, no other call moving the cursor      *)
(* meanwhile, leaves the cursor where it found it.                         *)
(***************************************************************************)
C14_Step ==
    /\ \A r \in Handlers :
          AttemptEnds(r)
          => IF LastOutcome(req'[r].attempts) \in Retried
               THEN current_region_index' = (current_region_index + 1) % RegionCount
               ELSE current_region_index' = current_region_index
    /\ (\A r \in Handlers : ~AttemptEnds(r))
       => current_region_index' = current_region_index
    /\ \A r \in Handlers :
          (AttemptEnds(r) /\ req[r].alone /\ Outcomes(r)' = <<"Success">>)
          => current_region_index' = req[r].start_index

C14_CursorFrame == [][C14_Step]_vars

\* a call has advanced the cursor; the first attempt of the next call has
\* succeeded and the cursor is where that call found it
C14_Witness ==
    \E r, q \in Chats :
        /\ RegionCount > 1
        /\ req[q].attempts # <<>> /\ req[q].attempts[1].outcome \in Retried
        /\ Outcomes(r) = <<"Success">> /\ req[r].alone
        /\ req[r].start_index = 1
        /\ current_region_index = 1

\* the chat request has ended at its load: call_bedrock was not entered
LoadFailed(request) ==
    /\ request.op = "chat"
    /\ request.pc = "done"
    /\ request.messages = <<>>

(***************************************************************************)
(* C15.  A chat request passes its load only with the stored log; when the *)
(* load raises, the request ends there with status 500 and no reply, it    *)
(* has called no region then or later, and the step changes neither the    *)
(* region cursor nor the storage.                                          *)
(***************************************************************************)
C15_Step ==
    \A r \in Handlers :
        /\ (req[r].pc = "load" /\ req'[r].pc # "load")
           => LET stored == StoredLog(storage, req[r].session_id)
              IN \/ /\ req'[r].pc = "converse"
                    /\ stored.ok
                    /\ req'[r].conversation = stored.value
                 \/ /\ LoadFailed(req'[r])
                    /\ req'[r].error.status_code = 500
                    /\ req'[r].response = <<>>
                    /\ req'[r].attempts = <<>>
                    /\ req'[r].region = ""
                    /\ req'[r].regions_tried = 0
                    /\ current_region_index' = current_region_index
                    /\ storage' = storage
        /\ LoadFailed(req[r]) => req'[r] \in {req[r], Idle}

C15_LoadFailure == [][C15_Step]_vars

\* a chat request whose load raised, after another call had advanced the cursor
C15_Witness ==
    \E r, q \in Chats :
        /\ LoadFailed(req[r])
        /\ req[r].error.status_code = 500
        /\ req[r].attempts = <<>>
        /\ req[q].attempts # <<>>
        /\ current_region_index = 1

\* request r is about to save and no other request has worked on its session
\* since r loaded: no other handler is on the session and the stored log is
\* still the log r loaded
Sequential(r) ==
    /\ req[r].pc = "save"
    /\ \A q \in Handlers \ {r} :
          req[q].session_id = req[r].session_id => req[q].pc \in {"idle", "done"}
    /\ StoredLog(storage, req[r].session_id) =
           Returned(SubSeq(req[r].conversation, 1, Len(req[r].conversation) - 2))

(***************************************************************************)
(* C16.  As claimed: when the chat calls on a session run one after        *)
(* another, every step that changes the stored document of the session is  *)
(* the save of a chat, and the log stored afterwards is the log stored     *)
(* before followed by the user message and the reply of that chat; so no   *)
(* message stored before is changed, moved or lost.                        *)
(***************************************************************************)
C16_Step ==
    \A r \in Handlers :
        (Sequential(r) /\ req'[r].pc = "done")
        => LET old == StoredLog(storage, req[r].session_id)
               new == StoredLog(storage', req[r].session_id)
           IN \/ new = old
              \/ /\ new.ok
                 /\ Len(new.value) = Len(old.value) + 2
                 /\ SubSeq(new.value, 1, Len(old.value)) = old.value
                 /\ new.value[Len(old.value) + 1].role = "user"
                 /\ new.value[Len(old.value) + 1].content = req[r].message
                 /\ new.value[Len(old.value) + 2].role = "assistant"
                 /\ new.value[Len(old.value) + 2].content = req[r].assistant_response
                 /\ req'[r].error = NoError

C16_GrowsBySuffix == [][C16_Step]_vars

\* the step in which handler r serves a get_conversation request
GetStep(r) == req[r].pc = "idle" /\ req'[r].op = "get"

(***************************************************************************)
(* C17.  get_conversation changes nothing: the step leaves every stored    *)
(* document and the region cursor as they are, so no document appears for  *)
(* an id that had none; when it answers, it answers with the session id    *)
(* asked for and the stored log as a load reads it, the empty sequence for *)
(* an id with no document.                                                 *)
(***************************************************************************)
C17_Step ==
    \A r \in Handlers :
        GetStep(r)
        => LET s == req'[r].session_id
               stored == StoredLog(storage, s)
           IN /\ storage' = storage
              /\ current_region_index' = current_region_index
              /\ \A p \in Paths : storage'[p].exists = storage[p].exists
              /\ req'[r].pc = "done"
              /\ req'[r].error = NoError
                 => /\ stored.ok
                    /\ req'[r].response = <<[session_id |-> s, messages |-> stored.value]>>
                    /\ ~storage[get_memory_path(s)].exists
                       => req'[r].response[1].messages = <<>>
              /\ req'[r].error # NoError
                 => req'[r].error.status_code = 500 /\ req'[r].response = <<>>

C17_ReadOnly == [][C17_Step]_vars

\* get_conversation has answered for an id with no document, which still has
\* none, and for the id with the stored log
C17_Witness ==
    \E r, q \in Gets :
        /\ Succeeded(r) /\ req[r].session_id = UnknownId
        /\ req[r].response[1].messages = <<>>
        /\ ~storage[get_memory_path(UnknownId)].exists
        /\ Succeeded(q) /\ req[q].session_id = SeededId
        /\ req[q].response[1].messages = SeedLog(SeedTurns)

\* the regions a request has sent an attempt to
Attempted(r) == {req[r].attempts[i].region : i \in 1..Len(req[r].attempts)}

CyclicFrom(regions, start) ==
    [i \in 1..Len(regions) |-> regions[((start + i - 1) % Len(regions)) + 1]]

(***************************************************************************)
(* C19.  A dispatch call that ends in exhaustion, no other call having     *)
(* advanced the cursor during it, has attempted every configured region    *)
(* exactly once, in the cyclic order of the list starting at the cursor    *)
(* value it found, and leaves the cursor at that value.                    *)
(***************************************************************************)
C19_Step ==
    \A r \in Handlers :
        (/\ AttemptEnds(r)
         /\ req'[r].error.status_code = 429
         /\ req[r].alone)
        => LET tried == [i \in 1..Len(req'[r].attempts) |-> req'[r].attempts[i].region]
           IN /\ tried = CyclicFrom(BEDROCK_REGIONS, req[r].start_index)
              /\ \A region \in Range(BEDROCK_REGIONS) :
                    Cardinality({i \in DOMAIN tried : tried[i] = region}) = 1
              /\ current_region_index' = req[r].start_index

C19_ExhaustedAlone == [][C19_Step]_vars

\* a call that found the cursor on the second region has tried the second
\* region, then the first, and has failed with 429; the cursor is back
C19_Witness ==
    \E r \in Chats :
        /\ RegionCount = 2
        /\ req[r].error.status_code = 429
        /\ req[r].alone
        /\ req[r].start_index = 1
        /\ req[r].attempts[1].region = BEDROCK_REGIONS[2]
        /\ req[r].attempts[2].region = BEDROCK_REGIONS[1]
        /\ current_region_index = 1


\* the step in which handler r takes up a chat request
ChatBegins(r) == req[r].pc = "idle" /\ req'[r].op = "chat"

\* the step in which the save of request r succeeds
SaveSucceeds(r) ==
    req[r].pc = "save" /\ req'[r].pc = "done" /\ req'[r].error = NoError

(***************************************************************************)
(* C20.  As claimed: a chat request that carries a session_id, whatever    *)
(* its value, works under that id, for which no id is generated, and when  *)
(* it succeeds its response carries that same id.                          *)
(***************************************************************************)
C20_SuppliedIdKept ==
    \A r \in Chats :
        req[r].request_session_id # None
        => /\ req[r].session_id = req[r].request_session_id[1]
           /\ Succeeded(r) => req[r].response[1].session_id = req[r].request_session_id[1]

(***************************************************************************)
(* C20, amended.  A chat request that carries a non-empty session_id works *)
(* under that id: no id is generated for it, its successful save writes    *)
(* its turn to the document of that id and to no other, and its response   *)
(* carries that id.  An id is generated when the request carries no        *)
(* session_id or an empty one, and only then.                              *)
(***************************************************************************)
C20_Step ==
    \A r \in Handlers :
        LET supplied == req'[r].request_session_id \notin {None, Some("")}
        IN /\ ChatBegins(r)
              => /\ supplied <=> issued' = issued
                 /\ supplied => req'[r].session_id = req'[r].request_session_id[1]
                 /\ ~supplied => /\ req'[r].session_id \in UUIDs \ issued
                                 /\ issued' = issued \cup {req'[r].session_id}
           /\ ~ChatBegins(r) => issued' = issued \/ \E q \in Handlers : ChatBegins(q)
           /\ (SaveSucceeds(r) /\ supplied)
              => LET id == req[r].request_session_id[1]
                 IN /\ req'[r].response =
                          ChatResponse(req[r].assistant_response, id)
                    /\ StoredLog(storage', id) = Returned(req[r].conversation)
                    /\ req[r].conversation[Len(req[r].conversation) - 1].content
                          = req[r].message
                    /\ \A p \in Paths \ {get_memory_path(id)} : storage'[p] = storage[p]

C20_SessionIdKept == [][C20_Step]_vars

\* a request that carried the id of the stored session has succeeded under
\* it, and a request that carried an empty id has succeeded under a
\* generated one
C20_Witness ==
    \E r, q \in Chats :
        /\ req[r].request_session_id = Some(SeededId)
        /\ Succeeded(r) /\ req[r].wrote
        /\ req[r].response[1].session_id = SeededId
        /\ StoredLog(storage, SeededId) = Returned(req[r].conversation)
        /\ req[q].request_session_id = Some("")
        /\ Succeeded(q)
        /\ req[q].response[1].session_id \in UUIDs

=============================================================================
